---- MODULE Spec2Model ----
(***************************************************************************)
(* kextractor: the concurrent scanning engine.                             *)
(*                                                                         *)
(*   File.Scan      reads one file line by line through bufio.ReadLine,    *)
(*                  recording the lines that match                         *)
(*   ScanFiles      one goroutine per path of a batch, an unbuffered       *)
(*                  channel of results, a closer goroutine behind a        *)
(*                  WaitGroup                                              *)
(*   main           the loop over the chunks, the error counter, the heap  *)
(*                  of files with matches, Heap.Print and showNumbers      *)
(*                                                                         *)
(* A byte is a one-character string; a line, a chunk and a path are        *)
(* sequences of bytes. A *File is the id <<batch, position>> of the        *)
(* goroutine that allocated it.                                            *)
(***************************************************************************)
EXTENDS Integers, Sequences, FiniteSets, TLC

\* ------------------------------------------------------------------ bounds
\* longest list of candidate paths handed to main
MaxFiles == 3
\* largest batch size the descriptor limit yields
MaxLimit == 2
\* size of the bufio.Reader buffer (4096 in the standard library), scaled down
BufSize == 2
\* longest file content, in bytes, of the single-scan specification
MaxLen == 4

VARIABLES
    foundFiles,     \* main: the candidate paths (dir.Find's result)
    limit,          \* the batch size derived from Limit()
    disk,           \* path -> the file the operating system holds there
    match,          \* the compiled match pattern
    ignore,         \* the compiled ignore pattern, or NilRegex
    chunks,         \* main: file.Chunks(foundFiles)
    foundFilesCnt,  \* main: len(foundFiles)
    mainpc,         \* main: where the main goroutine stands
    k,              \* main: index of the batch being ranged over
    cur,            \* main: the *File received last
    scanErrorsCnt,  \* main: scanErrorsCnt
    heap,           \* main: the backing array of filesContainingKorean
    plen,           \* Heap.Print: the length of its copy of the slice header
    printed,        \* the paths Heap.Print has printed, in order
    shown,          \* the numbers showNumbers printed
    tasks,          \* id -> the scanning goroutine of ScanFiles and its File
    wg,             \* batch -> the WaitGroup counter of that ScanFiles call
    cpClosed,       \* batch -> whether the channel of that call is closed
    closer,         \* batch -> where the closer goroutine stands
    recv            \* id -> how many times main received that *File

vars == <<foundFiles, limit, disk, match, ignore, chunks, foundFilesCnt, mainpc,
          k, cur, scanErrorsCnt, heap, plen, printed, shown, tasks, wg,
          cpClosed, closer, recv>>

inputs == <<foundFiles, limit, disk, match, ignore>>
mainVars == <<chunks, foundFilesCnt, mainpc, k, cur, scanErrorsCnt, heap, plen,
              printed, shown>>
syncVars == <<wg, cpClosed, closer, recv>>

\* ------------------------------------------------------------------ bytes
NL == "\n"
CR == "\r"
\* the bytes a file content is drawn from: a Korean (non-ASCII) byte, a plain
\* byte, the comment marker, and the two line-end bytes
Alphabet == {"K", "x", "/", NL, CR}

\* the bytes a path is made of, in ascending byte order
PathBytes == <<".", "/", "a", "b">>

Ord(c) == CHOOSE i \in 1..Len(PathBytes) : PathBytes[i] = c

Min(a, b) == IF a < b THEN a ELSE b

\* Go's string comparison s < t: bytewise, a proper prefix is smaller
StringLess(s, t) ==
    \E i \in 1..(Len(t)) :
        /\ \A j \in 1..(i - 1) : j <= Len(s) /\ s[j] = t[j]
        /\ Len(s) >= i - 1
        /\ \/ Len(s) = i - 1
           \/ Ord(s[i]) < Ord(t[i])

\* ------------------------------------------------------------------ regexp
NilRegex == [kind |-> "nil", c |-> ""]
\* conf.KoreanPatternForRegex: a line holding a Korean byte
KoreanRegex == [kind |-> "contains", c |-> "K"]
\* an ignore pattern such as ^//: a line starting with the comment marker
CommentRegex == [kind |-> "prefix", c |-> "/"]

\* (*regexp.Regexp).Match on the bytes of a line
RegexMatch(re, line) ==
    CASE re.kind = "contains" -> \E i \in 1..Len(line) : line[i] = re.c
      [] re.kind = "prefix" -> Len(line) > 0 /\ line[1] = re.c
      [] OTHER -> FALSE

\* ------------------------------------------------------------------ bufio
\* index of the first newline of s, 0 when there is none
IndexNL(s) ==
    IF \E i \in 1..Len(s) : s[i] = NL
    THEN CHOOSE i \in 1..Len(s) : s[i] = NL /\ \A j \in 1..(i - 1) : s[j] # NL
    ELSE 0

\* a terminated line without its line end ("\n" or "\r\n")
DropLineEnd(s) ==
    IF Len(s) > 1 /\ s[Len(s) - 1] = CR
    THEN SubSeq(s, 1, Len(s) - 2)
    ELSE SubSeq(s, 1, Len(s) - 1)

\* (*bufio.Reader).ReadLine on a file that delivers `bytes` and then `term`
\* (io.EOF or a read error) for ever, `pos` bytes of it being consumed.
ReadLine(bytes, term, pos) ==
    LET rest == SubSeq(bytes, pos + 1, Len(bytes))
        nl == IndexNL(rest)
    IN  IF nl > 0 /\ nl <= BufSize
        THEN \* ReadSlice found the delimiter in the buffer
             [chunk |-> DropLineEnd(SubSeq(rest, 1, nl)), isPrefix |-> FALSE,
              err |-> "nil", pos |-> pos + nl]
        ELSE IF Len(rest) >= BufSize
        THEN \* ErrBufferFull; a trailing \r is put back for the next call
             IF rest[BufSize] = CR
             THEN [chunk |-> SubSeq(rest, 1, BufSize - 1), isPrefix |-> TRUE,
                   err |-> "nil", pos |-> pos + BufSize - 1]
             ELSE [chunk |-> SubSeq(rest, 1, BufSize), isPrefix |-> TRUE,
                   err |-> "nil", pos |-> pos + BufSize]
        ELSE IF Len(rest) > 0
        THEN \* the read failed with data pending: the data is a line
             [chunk |-> rest, isPrefix |-> FALSE, err |-> "nil",
              pos |-> Len(bytes)]
        ELSE [chunk |-> <<>>, isPrefix |-> FALSE, err |-> term, pos |-> pos]

\* ------------------------------------------------------------------ File
NoId == <<0, 0>>

\* the files the operating system can hold at a path: the bytes it delivers,
\* what a read answers after them, and whether os.Open fails
OsFile(bytes, term, openErr) == [bytes |-> bytes, term |-> term, openErr |-> openErr]

\* &File{filePath, m, ig, map[int][]byte{}, nil}
NewFile(path, m, ig) ==
    [path |-> path, matchRegex |-> m, ignoreRegex |-> ig,
     matchedLines |-> <<>>, scanError |-> "nil"]

NoFile == NewFile(<<>>, NilRegex, NilRegex)

\* a goroutine of ScanFiles that has not run yet: its File f, the locals of
\* File.Scan (reader position, line, lineNumber), whether it holds the file
\* open, and how often its before and after notifications fired
NewTask ==
    [pc |-> "before", f |-> NoFile, pos |-> 0, line |-> <<>>, lineNumber |-> 0,
     fd |-> FALSE, nb |-> 0, na |-> 0]

\* m[key] = value on a Go map
MapPut(m, key, value) ==
    [x \in (DOMAIN m) \cup {key} |-> IF x = key THEN value ELSE m[x]]

\* the goroutine's start: beforeFn(filePath); f := &File{...}
BeforeStep(t, path, m, ig) ==
    [t EXCEPT !.pc = "scan", !.nb = @ + 1, !.f = NewFile(path, m, ig)]

\* a Scan whose goroutine gives up on a file it cannot open
OpenStepAbort(t, file) ==
    IF t.f.matchRegex = NilRegex
    THEN [t EXCEPT !.pc = "after"]
    ELSE IF file.openErr
    THEN [t EXCEPT !.pc = "exit", !.f.scanError = "ENOENT"]
    ELSE [t EXCEPT !.pc = "read", !.fd = TRUE, !.pos = 0, !.line = <<>>,
                   !.lineNumber = 0]

\* a goroutine that sends a File it could not open without calling afterFn
OpenStepNoAfter(t, file) ==
    IF t.f.matchRegex = NilRegex
    THEN [t EXCEPT !.pc = "after"]
    ELSE IF file.openErr
    THEN [t EXCEPT !.pc = "send", !.f.scanError = "ENOENT"]
    ELSE [t EXCEPT !.pc = "read", !.fd = TRUE, !.pos = 0, !.line = <<>>,
                   !.lineNumber = 0]

\* a File.Scan that opens the file before it looks at matchRegex
OpenStepOpenFirst(t, file) ==
    IF file.openErr
    THEN [t EXCEPT !.pc = "after", !.f.scanError = "ENOENT"]
    ELSE IF t.f.matchRegex = NilRegex
    THEN [t EXCEPT !.pc = "after"]
    ELSE [t EXCEPT !.pc = "read", !.fd = TRUE, !.pos = 0, !.line = <<>>,
                   !.lineNumber = 0]

\* File.Scan up to the loop: the nil check and os.Open
OpenStep(t, file) ==
    IF t.f.matchRegex = NilRegex
    THEN [t EXCEPT !.pc = "after"]
    ELSE IF file.openErr
    THEN [t EXCEPT !.pc = "after", !.f.scanError = "ENOENT"]
    ELSE [t EXCEPT !.pc = "read", !.fd = TRUE, !.pos = 0, !.line = <<>>,
                   !.lineNumber = 0]

\* a File.Scan without the deferred file.Close()
ScanReturnNoClose(t) == [t EXCEPT !.pc = "after"]

\* File.Scan returns: the deferred file.Close() runs; pos, line and lineNumber
\* keep the values the locals had at the return
ScanReturn(t) == [t EXCEPT !.pc = "after", !.fd = FALSE]

\* a loop that leaves the line counter alone on an ignored line
ReadStepSkipUncounted(t, file) ==
    LET r == ReadLine(file.bytes, file.term, t.pos)
        line == t.line \o r.chunk
        lineNumber == t.lineNumber + 1
    IN  IF r.err # "nil"
        THEN IF r.err # "EOF"
             THEN ScanReturn([t EXCEPT !.f.scanError = r.err])
             ELSE ScanReturn(t)
        ELSE IF r.isPrefix
        THEN [t EXCEPT !.pos = r.pos, !.line = line]
        ELSE IF t.f.ignoreRegex # NilRegex /\ RegexMatch(t.f.ignoreRegex, line)
        THEN [t EXCEPT !.pos = r.pos, !.line = <<>>]
        ELSE IF RegexMatch(t.f.matchRegex, line)
        THEN [t EXCEPT !.pos = r.pos, !.line = <<>>, !.lineNumber = lineNumber,
                       !.f.matchedLines = MapPut(@, lineNumber, line)]
        ELSE [t EXCEPT !.pos = r.pos, !.line = <<>>, !.lineNumber = lineNumber]

\* a loop that empties the matched lines when a read fails
ReadStepDiscard(t, file) ==
    LET r == ReadLine(file.bytes, file.term, t.pos)
        line == t.line \o r.chunk
        lineNumber == t.lineNumber + 1
    IN  IF r.err # "nil"
        THEN IF r.err # "EOF"
             THEN ScanReturn([t EXCEPT !.f.scanError = r.err,
                                       !.f.matchedLines = <<>>])
             ELSE ScanReturn(t)
        ELSE IF r.isPrefix
        THEN [t EXCEPT !.pos = r.pos, !.line = line]
        ELSE IF t.f.ignoreRegex # NilRegex /\ RegexMatch(t.f.ignoreRegex, line)
        THEN [t EXCEPT !.pos = r.pos, !.line = <<>>, !.lineNumber = lineNumber]
        ELSE IF RegexMatch(t.f.matchRegex, line)
        THEN [t EXCEPT !.pos = r.pos, !.line = <<>>, !.lineNumber = lineNumber,
                       !.f.matchedLines = MapPut(@, lineNumber, line)]
        ELSE [t EXCEPT !.pos = r.pos, !.line = <<>>, !.lineNumber = lineNumber]

\* one iteration of the loop of File.Scan
ReadStep(t, file) ==
    LET r == ReadLine(file.bytes, file.term, t.pos)
        line == t.line \o r.chunk
        lineNumber == t.lineNumber + 1
    IN  IF r.err # "nil"
        THEN IF r.err # "EOF"
             THEN ScanReturn([t EXCEPT !.f.scanError = r.err])
             ELSE ScanReturn(t)
        ELSE IF r.isPrefix
        THEN [t EXCEPT !.pos = r.pos, !.line = line]
        ELSE IF t.f.ignoreRegex # NilRegex /\ RegexMatch(t.f.ignoreRegex, line)
        THEN [t EXCEPT !.pos = r.pos, !.line = <<>>, !.lineNumber = lineNumber]
        ELSE IF RegexMatch(t.f.matchRegex, line)
        THEN [t EXCEPT !.pos = r.pos, !.line = <<>>, !.lineNumber = lineNumber,
                       !.f.matchedLines = MapPut(@, lineNumber, line)]
        ELSE [t EXCEPT !.pos = r.pos, !.line = <<>>, !.lineNumber = lineNumber]

\* afterFn(filePath); the goroutine then blocks on cp <- f
AfterStep(t) == [t EXCEPT !.pc = "send", !.na = @ + 1]

\* File.Scan as a whole: the loop run to its return
RECURSIVE RunScan(_, _)
RunScan(t, file) ==
    IF t.pc = "read" THEN RunScan(ReadStep(t, file), file) ELSE t

\* the File a goroutine sends for `path` when the disk holds `file` there
ScanResult(path, file, m, ig) ==
    RunScan(OpenStep(BeforeStep(NewTask, path, m, ig), file), file).f

\* ------------------------------------------------------------------ Chunker
\* a chunker that only cuts full batches and loses the paths left over
ChunksDropTail(s, n) ==
    [i \in 1..(Len(s) \div n) |->
        SubSeq(s, (i - 1) * n + 1, Min(i * n, Len(s)))]

\* file.Chunks: consecutive batches of at most n paths
Chunks(s, n) ==
    [i \in 1..((Len(s) + n - 1) \div n) |->
        SubSeq(s, (i - 1) * n + 1, Min(i * n, Len(s)))]

\* the path the goroutine id was started for
PathOf(id) == chunks[id[1]][id[2]]

\* ------------------------------------------------------------------ Heap
\* Heap.Swap, on 0-based indices
Swap(h, i, j) == [h EXCEPT ![i + 1] = h[j + 1], ![j + 1] = h[i + 1]]

\* a Less that compares the wrong way round
LessReversed(h, i, j) ==
    StringLess(tasks[h[j + 1]].f.path, tasks[h[i + 1]].f.path)

\* Heap.Less, on 0-based indices: h[i].path < h[j].path
Less(h, i, j) == StringLess(tasks[h[i + 1]].f.path, tasks[h[j + 1]].f.path)

\* (j - 1) / 2 of Go, which truncates towards zero
Parent(j) == IF j = 0 THEN 0 ELSE (j - 1) \div 2

RECURSIVE Up(_, _)
\* container/heap up(h, j), over Heap.Less and Heap.Swap
Up(h, j) ==
    LET i == Parent(j)
    IN  IF i = j \/ ~Less(h, j, i) THEN h ELSE Up(Swap(h, i, j), i)

RECURSIVE Down(_, _, _)
\* container/heap down(h, i, n), over Heap.Less and Heap.Swap
Down(h, i, n) ==
    LET j1 == 2 * i + 1
        j == IF j1 + 1 < n /\ Less(h, j1 + 1, j1) THEN j1 + 1 ELSE j1
    IN  IF j1 >= n THEN h
        ELSE IF ~Less(h, j, i) THEN h
        ELSE Down(Swap(h, i, j), j, n)

\* heap.Push(h, x): Heap.Push appends, up restores the order
HeapPush(h, x) == Up(Append(h, x), Len(h))

\* heap.Pop on a header of length len over the array h: the array after
\* Swap(0, n) and down(0, n); Heap.Pop then returns its element n
HeapPop(h, len) == Down(Swap(h, 0, len - 1), 0, len - 1)

\* ------------------------------------------------------------------ inputs
\* candidate paths in the order a directory walk may list them, which is not
\* the byte order of the path strings: "b", "a/b", "a", "a.b"
Candidates == << <<"b">>, <<"a", "/", "b">>, <<"a">>, <<"a", ".", "b">> >>

\* s restricted to the indices of I, in order
RECURSIVE Pick(_, _)
Pick(s, I) ==
    IF I = {} THEN <<>>
    ELSE LET m == CHOOSE x \in I : \A y \in I : x >= y
         IN  Append(Pick(s, I \ {m}), s[m])

Range(s) == {s[i] : i \in DOMAIN s}

\* the files a path of the whole run may hold: one matching line, nothing,
\* a file that cannot be opened, a matching line and then a read error
MatchingFile == OsFile(<<"K">>, "EOF", FALSE)
EmptyFile == OsFile(<<>>, "EOF", FALSE)
UnreadableFile == OsFile(<<>>, "EOF", TRUE)
BrokenFile == OsFile(<<"K", NL>>, "EIO", FALSE)
RunFiles == {MatchingFile, EmptyFile, UnreadableFile, BrokenFile}

NoNumbers == [scanned |-> 0, errors |-> 0, success |-> 0, matched |-> 0]

\* main before file.Chunks: any list of candidates, any batch size, any disk
Init ==
    /\ \E I \in SUBSET (1..Len(Candidates)) :
          /\ Cardinality(I) <= MaxFiles
          /\ foundFiles = Pick(Candidates, I)
    /\ limit \in 1..MaxLimit
    /\ disk \in [Range(foundFiles) -> RunFiles]
    /\ match = KoreanRegex
    /\ ignore = CommentRegex
    /\ chunks = <<>>
    /\ foundFilesCnt = 0
    /\ mainpc = "start"
    /\ k = 0
    /\ cur = NoId
    /\ scanErrorsCnt = 0
    /\ heap = <<>>
    /\ plen = 0
    /\ printed = <<>>
    /\ shown = NoNumbers
    /\ tasks = <<>>
    /\ wg = <<>>
    /\ cpClosed = <<>>
    /\ closer = <<>>
    /\ recv = <<>>

\* ------------------------------------------------------------------ ScanFiles
\* the ids of the goroutines ScanFiles starts for batch b
BatchIds(b) == {<<b, j>> : j \in 1..Len(chunks[b])}

\* the goroutine: beforeFn(filePath); f := &File{...}
TaskBefore(id) ==
    /\ tasks[id].pc = "before"
    /\ tasks' = [tasks EXCEPT ![id] = BeforeStep(@, PathOf(id), match, ignore)]
    /\ UNCHANGED <<inputs, mainVars, syncVars>>

\* a File.Scan that counts its own open failure in scanErrorsCnt
ScanOpenCounting(id) ==
    /\ tasks[id].pc = "scan"
    /\ tasks' = [tasks EXCEPT ![id] = OpenStep(@, disk[@.f.path])]
    /\ scanErrorsCnt' =
          IF disk[tasks[id].f.path].openErr /\ tasks[id].f.matchRegex # NilRegex
          THEN scanErrorsCnt + 1
          ELSE scanErrorsCnt
    /\ UNCHANGED <<inputs, chunks, foundFilesCnt, mainpc, k, cur, heap, plen,
                   printed, shown, syncVars>>

\* File.Scan: the nil check and os.Open
ScanOpen(id) ==
    /\ tasks[id].pc = "scan"
    /\ tasks' = [tasks EXCEPT ![id] = OpenStep(@, disk[@.f.path])]
    /\ UNCHANGED <<inputs, mainVars, syncVars>>

\* a read loop whose lineNumber is one variable of the package, shared by
\* every goroutine, instead of a local of File.Scan
ScanReadSharedCounter(id) ==
    /\ tasks[id].pc = "read"
    /\ LET shared == CHOOSE n \in {tasks[j].lineNumber : j \in DOMAIN tasks} :
                         \A j \in DOMAIN tasks : tasks[j].lineNumber <= n
       IN  tasks' = [tasks EXCEPT ![id] =
                        ReadStep([@ EXCEPT !.lineNumber = shared],
                                 disk[@.f.path])]
    /\ UNCHANGED <<inputs, mainVars, syncVars>>

\* goroutines of a batch that all write the matched lines of one File, the
\* variable f being shared by their closures
ScanReadSharedFile(id) ==
    /\ tasks[id].pc = "read"
    /\ LET t == ReadStep(tasks[id], disk[tasks[id].f.path])
       IN  tasks' = [j \in DOMAIN tasks |->
                        IF j = id THEN t
                        ELSE IF j[1] = id[1] /\ tasks[j].pc # "before"
                        THEN [tasks[j] EXCEPT
                                 !.f.matchedLines = t.f.matchedLines]
                        ELSE tasks[j]]
    /\ UNCHANGED <<inputs, mainVars, syncVars>>

\* File.Scan: one iteration of the read loop; the last one returns
ScanRead(id) ==
    /\ tasks[id].pc = "read"
    /\ tasks' = [tasks EXCEPT ![id] = ReadStep(@, disk[@.f.path])]
    /\ UNCHANGED <<inputs, mainVars, syncVars>>

\* the goroutine: afterFn(filePath)
TaskAfter(id) ==
    /\ tasks[id].pc = "after"
    /\ tasks' = [tasks EXCEPT ![id] = AfterStep(@)]
    /\ UNCHANGED <<inputs, mainVars, syncVars>>

\* a goroutine that returns without wg.Done()
TaskDoneNoDone(id) ==
    /\ tasks[id].pc = "done"
    /\ tasks' = [tasks EXCEPT ![id].pc = "exit"]
    /\ UNCHANGED <<inputs, mainVars, syncVars>>

\* the goroutine: the deferred wg.Done(), the send having been taken
TaskDone(id) ==
    /\ tasks[id].pc = "done"
    /\ tasks' = [tasks EXCEPT ![id].pc = "exit"]
    /\ wg' = [wg EXCEPT ![id[1]] = @ - 1]
    /\ UNCHANGED <<inputs, mainVars, cpClosed, closer, recv>>

\* a closer that closes the channel without waiting for the WaitGroup
CloserEarly(b) ==
    /\ closer[b] = "wait"
    /\ closer' = [closer EXCEPT ![b] = "exit"]
    /\ cpClosed' = [cpClosed EXCEPT ![b] = TRUE]
    /\ UNCHANGED <<inputs, mainVars, tasks, wg, recv>>

\* the closer goroutine: wg.Wait() returns once the counter is zero; close(cp)
Closer(b) ==
    /\ closer[b] = "wait"
    /\ wg[b] = 0
    /\ closer' = [closer EXCEPT ![b] = "exit"]
    /\ cpClosed' = [cpClosed EXCEPT ![b] = TRUE]
    /\ UNCHANGED <<inputs, mainVars, tasks, wg, recv>>

\* ------------------------------------------------------------------ main
\* foundFilesCnt := len(foundFiles), the exit on no file, file.Chunks
MainStart ==
    /\ mainpc = "start"
    /\ foundFilesCnt' = Len(foundFiles)
    /\ IF Len(foundFiles) = 0
       THEN mainpc' = "exit" /\ chunks' = chunks
       ELSE mainpc' = "loop" /\ chunks' = Chunks(foundFiles, limit)
    /\ UNCHANGED <<inputs, k, cur, scanErrorsCnt, heap, plen, printed, shown,
                   tasks, syncVars>>

\* the outer loop takes the next chunk and calls ScanFiles on it: the channel,
\* wg.Add(len(filePaths)), one goroutine per path, the closer goroutine
MainScanFiles ==
    /\ mainpc = "loop"
    /\ k < Len(chunks)
    /\ k' = k + 1
    /\ mainpc' = "range"
    /\ tasks' = [id \in (DOMAIN tasks) \cup BatchIds(k + 1) |->
                    IF id \in DOMAIN tasks THEN tasks[id] ELSE NewTask]
    /\ recv' = [id \in (DOMAIN recv) \cup BatchIds(k + 1) |->
                    IF id \in DOMAIN recv THEN recv[id] ELSE 0]
    /\ wg' = Append(wg, Len(chunks[k + 1]))
    /\ cpClosed' = Append(cpClosed, FALSE)
    /\ closer' = Append(closer, "wait")
    /\ UNCHANGED <<inputs, chunks, foundFilesCnt, cur, scanErrorsCnt, heap,
                   plen, printed, shown>>

\* cp <- f meets the receive of main's range: the channel is unbuffered
MainRecv(id) ==
    /\ mainpc = "range"
    /\ id[1] = k
    /\ ~cpClosed[k]
    /\ tasks[id].pc = "send"
    /\ tasks' = [tasks EXCEPT ![id].pc = "done"]
    /\ recv' = [recv EXCEPT ![id] = @ + 1]
    /\ cur' = id
    /\ mainpc' = "body"
    /\ UNCHANGED <<inputs, chunks, foundFilesCnt, k, scanErrorsCnt, heap, plen,
                   printed, shown, wg, cpClosed, closer>>

\* a loop body that looks at the matched lines before the error
ConsumeMatchesFirst(f, id, cnt, h) ==
    IF Cardinality(DOMAIN f.matchedLines) > 0
    THEN [cnt |-> cnt, h |-> Up(Append(h, id), Len(h))]
    ELSE IF f.scanError # "nil"
    THEN [cnt |-> cnt + 1, h |-> h]
    ELSE [cnt |-> cnt, h |-> h]

\* a loop body that pushes every File without error, matches or not
ConsumeEveryFile(f, id, cnt, h) ==
    IF f.scanError # "nil"
    THEN [cnt |-> cnt + 1, h |-> h]
    ELSE [cnt |-> cnt, h |-> Up(Append(h, id), Len(h))]

\* the body of the range loop, for the File received
Consume(f, id, cnt, h) ==
    IF f.scanError # "nil"
    THEN [cnt |-> cnt + 1, h |-> h]
    ELSE IF Cardinality(DOMAIN f.matchedLines) > 0
    THEN [cnt |-> cnt, h |-> HeapPush(h, id)]
    ELSE [cnt |-> cnt, h |-> h]

MainBody ==
    /\ mainpc = "body"
    /\ LET c == Consume(tasks[cur].f, cur, scanErrorsCnt, heap)
       IN  /\ scanErrorsCnt' = c.cnt
           /\ heap' = c.h
    /\ mainpc' = "range"
    /\ UNCHANGED <<inputs, chunks, foundFilesCnt, k, cur, plen, printed, shown,
                   tasks, syncVars>>

\* a range loop that is left although the channel is still open
MainRangeEndEarly ==
    /\ mainpc = "range"
    /\ mainpc' = "loop"
    /\ UNCHANGED <<inputs, chunks, foundFilesCnt, k, cur, scanErrorsCnt, heap,
                   plen, printed, shown, tasks, syncVars>>

\* the range loop ends when the channel is closed
MainRangeEnd ==
    /\ mainpc = "range"
    /\ cpClosed[k]
    /\ mainpc' = "loop"
    /\ UNCHANGED <<inputs, chunks, foundFilesCnt, k, cur, scanErrorsCnt, heap,
                   plen, printed, shown, tasks, syncVars>>

\* after the last chunk: Heap.Print is called on a copy of the slice header,
\* which shares the array of the caller (the run is one without opts.ErrorOnly)
MainPrintStart ==
    /\ mainpc = "loop"
    /\ k = Len(chunks)
    /\ mainpc' = "print"
    /\ plen' = Len(heap)
    /\ UNCHANGED <<inputs, chunks, foundFilesCnt, k, cur, scanErrorsCnt, heap,
                   printed, shown, tasks, syncVars>>

\* Heap.Print: one heap.Pop and the Println of its path
MainPrintPop ==
    /\ mainpc = "print"
    /\ plen > 0
    /\ heap' = HeapPop(heap, plen)
    /\ printed' = Append(printed, tasks[heap'[plen]].f.path)
    /\ plen' = plen - 1
    /\ UNCHANGED <<inputs, chunks, foundFilesCnt, mainpc, k, cur, scanErrorsCnt,
                   shown, tasks, syncVars>>

\* showNumbers(foundFilesCnt, scanErrorsCnt, filesContainingKorean.Len())
ShowNumbers(found, errors, containing) ==
    [scanned |-> found, errors |-> errors, success |-> found - errors,
     matched |-> containing]

MainShowNumbers ==
    /\ mainpc = "print"
    /\ plen = 0
    /\ shown' = ShowNumbers(foundFilesCnt, scanErrorsCnt, Len(heap))
    /\ mainpc' = "done"
    /\ UNCHANGED <<inputs, chunks, foundFilesCnt, k, cur, scanErrorsCnt, heap,
                   plen, printed, tasks, syncVars>>

Next ==
    \/ MainStart
    \/ MainScanFiles
    \/ \E id \in DOMAIN tasks : TaskBefore(id)
    \/ \E id \in DOMAIN tasks : ScanOpen(id)
    \/ \E id \in DOMAIN tasks : ScanRead(id)
    \/ \E id \in DOMAIN tasks : TaskAfter(id)
    \/ \E id \in DOMAIN tasks : MainRecv(id)
    \/ MainBody
    \/ \E id \in DOMAIN tasks : TaskDone(id)
    \/ \E b \in DOMAIN closer : Closer(b)
    \/ MainRangeEnd
    \/ MainPrintStart
    \/ MainPrintPop
    \/ MainShowNumbers

Spec == Init /\ [][Next]_vars

\* ------------------------------------------------------------------ one scan
\* every content of at most n bytes
BytesUpTo(n) == UNION {[1..m -> Alphabet] : m \in 0..n}

\* the files a single scan is tried on: every short content, ended by
\* end-of-stream or by a read error, and the file that cannot be opened
ScanDisk ==
    {OsFile(b, t, FALSE) : b \in BytesUpTo(MaxLen), t \in {"EOF", "EIO"}}
        \cup {UnreadableFile}

\* a batch of one path whose goroutine is about to call f.Scan(), for every
\* file and every pair of patterns
InitScan ==
    /\ foundFiles = << Candidates[1] >>
    /\ limit = 1
    /\ disk \in [Range(foundFiles) -> ScanDisk]
    /\ match \in {NilRegex, KoreanRegex}
    /\ ignore \in {NilRegex, CommentRegex}
    /\ chunks = Chunks(foundFiles, limit)
    /\ foundFilesCnt = Len(foundFiles)
    /\ mainpc = "range"
    /\ k = 1
    /\ cur = NoId
    /\ scanErrorsCnt = 0
    /\ heap = <<>>
    /\ plen = 0
    /\ printed = <<>>
    /\ shown = NoNumbers
    /\ tasks = [id \in {<<1, 1>>} |->
                   BeforeStep(NewTask, foundFiles[1], match, ignore)]
    /\ wg = <<1>>
    /\ cpClosed = <<FALSE>>
    /\ closer = <<"wait">>
    /\ recv = [id \in {<<1, 1>>} |-> 0]

NextScan ==
    \/ \E id \in DOMAIN tasks : ScanOpen(id)
    \/ \E id \in DOMAIN tasks : ScanRead(id)

SpecScan == InitScan /\ [][NextScan]_vars

\* ------------------------------------------------------------------ one batch
\* one call of ScanFiles by a caller that ranges over the channel as main
\* does: any batch of up to MaxLimit paths, the empty one too, any disk, the
\* match pattern set or nil
InitBatch ==
    /\ \E n \in 0..Min(MaxLimit, Len(Candidates)) :
          foundFiles = SubSeq(Candidates, 1, n)
    /\ limit = MaxLimit
    /\ disk \in [Range(foundFiles) -> RunFiles]
    /\ match \in {NilRegex, KoreanRegex}
    /\ ignore = CommentRegex
    /\ chunks = <<foundFiles>>
    /\ foundFilesCnt = Len(foundFiles)
    /\ mainpc = "loop"
    /\ k = 0
    /\ cur = NoId
    /\ scanErrorsCnt = 0
    /\ heap = <<>>
    /\ plen = 0
    /\ printed = <<>>
    /\ shown = NoNumbers
    /\ tasks = <<>>
    /\ wg = <<>>
    /\ cpClosed = <<>>
    /\ closer = <<>>
    /\ recv = <<>>

NextBatch ==
    \/ MainScanFiles
    \/ \E id \in DOMAIN tasks : TaskBefore(id)
    \/ \E id \in DOMAIN tasks : ScanOpen(id)
    \/ \E id \in DOMAIN tasks : ScanRead(id)
    \/ \E id \in DOMAIN tasks : TaskAfter(id)
    \/ \E id \in DOMAIN tasks : MainRecv(id)
    \/ MainBody
    \/ \E id \in DOMAIN tasks : TaskDone(id)
    \/ \E b \in DOMAIN closer : Closer(b)
    \/ MainRangeEnd
    \/ MainPrintStart
    \/ MainPrintPop
    \/ MainShowNumbers

\* the Go scheduler does not leave a goroutine that can run waiting for ever
SpecBatch == InitBatch /\ [][NextBatch]_vars /\ WF_vars(NextBatch)

\* ------------------------------------------------------------------ claims
\* the logical lines of a content: the bytes between line ends, a last line
\* without line end included
RECURSIVE LogicalLines(_)
LogicalLines(b) ==
    IF b = <<>> THEN <<>>
    ELSE LET nl == IndexNL(b)
         IN  IF nl = 0 THEN << b >>
             ELSE << DropLineEnd(SubSeq(b, 1, nl)) >>
                      \o LogicalLines(SubSeq(b, nl + 1, Len(b)))

\* the lines of L a scan with the patterns m and ig is to record
Wanted(L, m, ig) ==
    {n \in 1..Len(L) :
        /\ RegexMatch(m, L[n])
        /\ ~(ig # NilRegex /\ RegexMatch(ig, L[n]))}

\* the goroutine id is past File.Scan
Scanned(id) == tasks[id].pc \in {"after", "send", "done", "exit"}

\* the ids of every goroutine started so far
Started == DOMAIN tasks

\* the goroutine id has handed its File to main
Delivered(id) == tasks[id].pc \in {"done", "exit"}

\* C1: on the channel of every batch main receives each File of the batch at
\* most once and under the path it was started for; once the channel is
\* closed every goroutine of the batch has delivered exactly one File and has
\* finished, so nothing is sent on or after the close.
C1_OneResultPerPath ==
    \A b \in DOMAIN cpClosed :
        /\ \A id \in BatchIds(b) :
              /\ id \in DOMAIN recv
              /\ recv[id] <= 1
              /\ recv[id] = (IF Delivered(id) THEN 1 ELSE 0)
              /\ Delivered(id) => tasks[id].f.path = PathOf(id)
        /\ cpClosed[b] =>
              \A id \in BatchIds(b) : recv[id] = 1 /\ tasks[id].pc = "exit"
        /\ Cardinality({id \in DOMAIN recv : id[1] = b}) = Len(chunks[b])

\* the channel of a batch of two paths is closed, both results received
C1_Witness ==
    \E b \in DOMAIN cpClosed :
        /\ cpClosed[b]
        /\ Len(chunks[b]) = 2
        /\ \A id \in BatchIds(b) : recv[id] = 1

\* C3: whenever a goroutine of a later batch exists (it is created with the
\* call of ScanFiles, before its before-notification and before any open),
\* every goroutine of every earlier batch has delivered its File and finished,
\* and the channel of the earlier batch is closed.
C3_BatchesNeverOverlap ==
    \A id \in Started : \A later \in Started :
        id[1] < later[1] =>
            /\ tasks[id].pc = "exit"
            /\ tasks[id].fd = FALSE
            /\ recv[id] = 1
            /\ cpClosed[id[1]]

\* a goroutine of the second batch has opened its file
C3_Witness ==
    \E id \in Started : id[1] = 2 /\ tasks[id].fd /\ Len(chunks[1]) = 2

\* the File of goroutine id carries a failure
Failed(id) == tasks[id].f.scanError # "nil"

\* the File of goroutine id has no failure and at least one matched line
HasMatches(id) == ~Failed(id) /\ DOMAIN tasks[id].f.matchedLines # {}

StrictlyAscending(s) == \A i \in 1..(Len(s) - 1) : StringLess(s[i], s[i + 1])

\* the paths whose scan, as a function of the disk alone, ends without
\* failure and with matches
Reportable ==
    {p \in Range(foundFiles) :
        LET f == ScanResult(p, disk[p], match, ignore)
        IN  f.scanError = "nil" /\ DOMAIN f.matchedLines # {}}

\* C2: whatever the order in which the results arrived, Heap.Print prints
\* the paths in strictly ascending byte order, and once it is done the paths
\* printed are those the disk decides: the output is the one ascending
\* sequence of a set that does not depend on the arrival order.
C2_SortedReport ==
    /\ StrictlyAscending(printed)
    /\ mainpc = "done" => Range(printed) = Reportable

\* three paths are printed, pushed in an order that was not ascending
C2_Witness ==
    /\ mainpc = "done"
    /\ Len(printed) >= 3
    /\ \E id \in Started : \E other \in Started :
          /\ id[1] < other[1]
          /\ StringLess(tasks[other].f.path, tasks[id].f.path)

\* the Files main has received and whose loop body has run
Counted == {id \in Started : Delivered(id) /\ ~(mainpc = "body" /\ cur = id)}

\* C4: a File with a failure is never in the heap and its path is never
\* printed, whether or not it holds matched lines; each such File, once its
\* loop body has run, counts for exactly one in scanErrorsCnt; the numbers
\* shown count it as an error and not as a file with matches.
C4_FailedNeverReported ==
    /\ \A i \in 1..Len(heap) : ~Failed(heap[i])
    /\ \A i \in 1..Len(printed) :
          \A id \in Started : tasks[id].f.path = printed[i] => ~Failed(id)
    /\ scanErrorsCnt = Cardinality({id \in Counted : Failed(id)})
    /\ mainpc = "done" =>
          /\ shown.errors = Cardinality({id \in Started : Failed(id)})
          /\ shown.matched = Cardinality({id \in Started : HasMatches(id)})

\* the run is over; one File failed on a read after a line had matched,
\* another failed to open, a third is reported
C4_Witness ==
    /\ mainpc = "done"
    /\ \E id \in Started :
          /\ tasks[id].f.scanError = "EIO"
          /\ DOMAIN tasks[id].f.matchedLines # {}
    /\ \E id \in Started : tasks[id].f.scanError = "ENOENT"
    /\ shown.matched = 1

\* how often path p was printed
TimesPrinted(p) == Cardinality({i \in 1..Len(printed) : printed[i] = p})

\* C6: once the run is over, the path of a File is printed exactly once when
\* the File has no failure and at least one matched line, and not at all
\* otherwise; nothing else is printed; a File without failure and without
\* matches still counts as scanned and as a success.
C6_ReportExact ==
    mainpc = "done" =>
        /\ \A id \in Started :
              TimesPrinted(tasks[id].f.path) = (IF HasMatches(id) THEN 1 ELSE 0)
        /\ Len(printed) = Cardinality({id \in Started : HasMatches(id)})
        /\ shown.scanned = Cardinality(Started)
        /\ shown.success = Cardinality({id \in Started : ~Failed(id)})

\* the run is over; a File without failure and without matches is absent
\* from a report that is not empty
C6_Witness ==
    /\ mainpc = "done"
    /\ printed # <<>>
    /\ \E id \in Started :
          /\ ~Failed(id)
          /\ DOMAIN tasks[id].f.matchedLines = {}
          /\ TimesPrinted(tasks[id].f.path) = 0

\* main has not returned
Running == mainpc \notin {"done", "exit"}

\* C7: while main has not returned some goroutine can always take a step,
\* whichever Files failed, so the run goes on to showNumbers; the numbers
\* shown are: scanned, the number of input paths, each of which was received
\* exactly once; errors, the number of Files with a failure; success, their
\* difference; matched, at most success.
C7_FailuresNeverAbort ==
    /\ Running => ENABLED Next
    /\ mainpc = "done" =>
          /\ shown.scanned = Len(foundFiles)
          /\ Cardinality(Started) = Len(foundFiles)
          /\ \A id \in Started : recv[id] = 1
          /\ shown.errors = Cardinality({id \in Started : Failed(id)})
          /\ shown.success = shown.scanned - shown.errors
          /\ shown.matched <= shown.success

\* the run is over after two batches; a File of the first batch failed and
\* its neighbour and the second batch were scanned without failure
C7_Witness ==
    /\ mainpc = "done"
    /\ Len(chunks) = 2
    /\ \E id \in Started : \E other \in Started :
          /\ id[1] = 1 /\ other[1] = 1
          /\ Failed(id) /\ ~Failed(other)
    /\ \E id \in Started : id[1] = 2 /\ HasMatches(id)
    /\ shown.errors = 1
    /\ shown.scanned = 3

\* the file the disk holds at the path of goroutine id
FileOf(id) == disk[tasks[id].f.path]

\* the logical lines of that file
LinesOf(id) == LogicalLines(FileOf(id).bytes)

\* the lines of that file the patterns of the File select
WantedOf(id) ==
    Wanted(LinesOf(id), tasks[id].f.matchRegex, tasks[id].f.ignoreRegex)

\* how many lines of a content end with a line end
Terminated(b) == Cardinality({i \in 1..Len(b) : b[i] = NL})

\* the scan of goroutine id ended on a failed read
ReadFailed(id) == Scanned(id) /\ tasks[id].f.scanError \notin {"nil", "ENOENT"}

\* C5 as stated: a File with a failure holds no matched line.
C5_FailedScanHasNoMatches ==
    \A id \in Started :
        (Scanned(id) /\ Failed(id)) => DOMAIN tasks[id].f.matchedLines = {}

\* C5 as amended: the iteration whose read fails returns at once, closes the
\* file, stores the error of the read and leaves the matched lines as they
\* were; so a File whose scan ended on a failed read carries that error and
\* still holds every selected line that was read whole before it.
C5_ReadErrorKeepsMatches ==
    /\ [](\A id \in Started :
            ReadFailed(id) =>
                /\ tasks[id].f.scanError = FileOf(id).term
                /\ \A n \in DOMAIN tasks[id].f.matchedLines :
                      /\ n \in WantedOf(id)
                      /\ tasks[id].f.matchedLines[n] = LinesOf(id)[n]
                /\ \A n \in WantedOf(id) :
                      n <= Terminated(FileOf(id).bytes) =>
                          n \in DOMAIN tasks[id].f.matchedLines)
    /\ [][\A id \in Started :
            (tasks[id].pc = "read" /\ tasks'[id].f.scanError # "nil") =>
                /\ tasks'[id].pc = "after"
                /\ tasks'[id].fd = FALSE
                /\ tasks'[id].lineNumber = tasks[id].lineNumber
                /\ tasks'[id].f.matchedLines = tasks[id].f.matchedLines]_vars

\* a scan ended on a failed read after it had recorded a line
C5_Witness ==
    \E id \in Started :
        /\ ReadFailed(id)
        /\ tasks[id].f.scanError = "EIO"
        /\ DOMAIN tasks[id].f.matchedLines # {}

\* C8: the matched lines of a File scanned without failure are exactly the
\* pairs (n, line n) over the logical lines of the file that the match
\* pattern matches and the ignore pattern, when set, does not.
C8_MatchSetExact ==
    \A id \in Started :
        (Scanned(id) /\ ~Failed(id)) =>
            tasks[id].f.matchedLines = [n \in WantedOf(id) |-> LinesOf(id)[n]]

\* C9: a line is recorded under its position among the logical lines of the
\* file, ignored lines included: between two lines the counter is the number
\* of logical lines read so far, and every key of the matched lines holds
\* the bytes of the line at that position.
C9_NumbersCountIgnoredLines ==
    \A id \in Started :
        /\ (tasks[id].pc = "read" /\ tasks[id].line = <<>>) =>
              tasks[id].lineNumber =
                  Len(LogicalLines(SubSeq(FileOf(id).bytes, 1, tasks[id].pos)))
        /\ \A n \in DOMAIN tasks[id].f.matchedLines :
              /\ n \in 1..Len(LinesOf(id))
              /\ tasks[id].f.matchedLines[n] = LinesOf(id)[n]

\* an ignored first line and a matching second line: only line 2 is recorded
C9_Witness ==
    \E id \in Started :
        /\ Scanned(id)
        /\ tasks[id].f.ignoreRegex = CommentRegex
        /\ Len(LinesOf(id)) = 2
        /\ RegexMatch(CommentRegex, LinesOf(id)[1])
        /\ DOMAIN tasks[id].f.matchedLines = {2}

\* C10: in a File scanned without failure every logical line longer than the
\* buffer of the reader counts once (the counter ends at the number of
\* logical lines), is recorded when the patterns select it, and is recorded
\* with all its bytes; no recorded line holds bytes of another line.
C10_LongLineAssembled ==
    \A id \in Started :
        (Scanned(id) /\ ~Failed(id) /\ tasks[id].f.matchRegex # NilRegex) =>
            /\ \A n \in 1..Len(LinesOf(id)) :
                  Len(LinesOf(id)[n]) > BufSize =>
                      /\ tasks[id].lineNumber >= n
                      /\ n \in WantedOf(id) =>
                            n \in DOMAIN tasks[id].f.matchedLines
            /\ \A n \in DOMAIN tasks[id].f.matchedLines :
                  tasks[id].f.matchedLines[n] = LinesOf(id)[n]


\* C11: for every goroutine, whether its scan fails or not, beforeFn has
\* fired exactly once before the file is opened and not at all before the
\* goroutine runs; afterFn has not fired while the scan is under way and has
\* fired exactly once, the file closed, before the File is sent; a File
\* received has seen both.
C11_NotificationsAroundScan ==
    \A id \in Started :
        /\ tasks[id].nb = (IF tasks[id].pc = "before" THEN 0 ELSE 1)
        /\ tasks[id].fd => tasks[id].nb = 1
        /\ tasks[id].pc \in {"before", "scan", "read", "after"} =>
              tasks[id].na = 0
        /\ tasks[id].pc \in {"send", "done", "exit"} =>
              tasks[id].na = 1 /\ ~tasks[id].fd
        /\ recv[id] > 0 => tasks[id].nb = 1 /\ tasks[id].na = 1

\* in one batch the second path, which failed, is past afterFn and sent
\* while beforeFn has not fired for the first path
C11_Witness ==
    \E id \in Started : \E other \in Started :
        /\ id[1] = other[1]
        /\ id[2] < other[2]
        /\ tasks[id].nb = 0
        /\ Failed(other)
        /\ tasks[other].na = 1
        /\ recv[other] = 1


\* the batches of a list of batches, one after another
RECURSIVE Flatten(_)
Flatten(ss) ==
    IF ss = <<>> THEN <<>> ELSE Head(ss) \o Flatten(Tail(ss))

\* C12: once main has cut foundFiles into chunks, the chunks put end to end
\* are foundFiles itself, path for path and in the same order, no chunk is
\* empty or longer than the limit, and every chunk but the last has exactly
\* limit paths.
C12_ChunksPartition ==
    mainpc # "start" =>
        /\ Flatten(chunks) = foundFiles
        /\ \A i \in DOMAIN chunks :
              /\ Len(chunks[i]) >= 1
              /\ Len(chunks[i]) <= limit
              /\ i < Len(chunks) => Len(chunks[i]) = limit

\* three paths cut by a limit of two: a full chunk and a shorter last one
C12_Witness ==
    /\ mainpc = "loop"
    /\ Len(chunks) > 1
    /\ limit > 1
    /\ Len(chunks[1]) = limit
    /\ Len(chunks[Len(chunks)]) < limit
    /\ Len(foundFiles) = Len(chunks[1]) + Len(chunks[Len(chunks)])


\* C13: the File a goroutine ends File.Scan with is the one function
\* ScanResult of its path, the content at that path and the two patterns,
\* whatever steps the other goroutines took in between; so two goroutines
\* whose files have the same content end with the same matched lines and the
\* same error.
C13_ScanDeterministic ==
    /\ \A id \in Started :
          Scanned(id) =>
              tasks[id].f =
                  ScanResult(PathOf(id), disk[PathOf(id)], match, ignore)
    /\ \A id \in Started : \A other \in Started :
          (/\ Scanned(id)
           /\ Scanned(other)
           /\ disk[PathOf(id)] = disk[PathOf(other)]) =>
              /\ tasks[id].f.matchedLines = tasks[other].f.matchedLines
              /\ tasks[id].f.scanError = tasks[other].f.scanError

\* two goroutines of one batch have scanned files of the same content, one
\* with a matching line and then a failing read
C13_Witness ==
    \E id \in Started : \E other \in Started :
        /\ id # other
        /\ id[1] = other[1]
        /\ disk[PathOf(id)] = disk[PathOf(other)]
        /\ Scanned(id)
        /\ Scanned(other)
        /\ Failed(id)
        /\ DOMAIN tasks[id].f.matchedLines # {}


\* the goroutines that hold their file open
OpenFiles == {id \in Started : tasks[id].fd}

\* C14: the goroutines holding a file open all belong to the batch main is
\* ranging over, so they are no more than its paths (and no more than the
\* limit); a file is open only inside the read loop and is closed before
\* afterFn and the send; no file is open once the channel of a batch is closed
\* or when main is about to start the next batch.
C14_OpenFilesWithinBatch ==
    /\ k = 0 => OpenFiles = {}
    /\ k > 0 =>
          /\ OpenFiles \subseteq BatchIds(k)
          /\ Cardinality(OpenFiles) <= Len(chunks[k])
          /\ Cardinality(OpenFiles) <= limit
    /\ \A id \in Started :
          /\ tasks[id].fd => tasks[id].pc = "read"
          /\ (Scanned(id) \/ recv[id] > 0) => ~tasks[id].fd
    /\ \A b \in DOMAIN cpClosed :
          cpClosed[b] => OpenFiles \cap BatchIds(b) = {}
    /\ mainpc \in {"loop", "print", "done"} => OpenFiles = {}

\* every goroutine of a batch of more than one path holds its file open
C14_Witness ==
    /\ k > 0
    /\ OpenFiles = BatchIds(k)
    /\ Cardinality(OpenFiles) > 1
    /\ Cardinality(OpenFiles) = limit


\* the call of ScanFiles is over: every goroutine has sent its File and
\* returned, the closer has closed the channel and returned, and the caller
\* has left its range loop
BatchOver ==
    /\ k = 1
    /\ cpClosed[1]
    /\ closer[1] = "exit"
    /\ mainpc # "range"
    /\ \A id \in BatchIds(1) : tasks[id].pc = "exit" /\ recv[id] = 1

\* C15: with a caller that keeps receiving and a fair scheduler every call
\* of ScanFiles comes to an end and stays there: every goroutine has sent and
\* returned (none is left at the send), the channel is closed and the range
\* loop is left; the channel is closed once, by the step in which the closer
\* returns, and stays closed; the channel of an empty batch is closed without
\* a File having been received.
C15_ScanFilesTerminates ==
    /\ <>[]BatchOver
    /\ [][\A b \in DOMAIN cpClosed :
             /\ cpClosed[b] => cpClosed'[b]
             /\ cpClosed'[b] # cpClosed[b] =>
                   closer[b] = "wait" /\ closer'[b] = "exit"
             /\ closer[b] = "exit" => cpClosed[b] /\ closer'[b] = "exit"]_vars
    /\ [](\A b \in DOMAIN cpClosed :
             Len(chunks[b]) = 0 => DOMAIN recv = {} /\ cur = NoId)

\* a batch of more than one path, one of them failed, is over
C15_Witness ==
    /\ BatchOver
    /\ Cardinality(BatchIds(1)) > 1
    /\ \E id \in BatchIds(1) : Failed(id)

\* the channel of an empty batch is closed and the range loop left
C15_EmptyBatchClosed ==
    /\ BatchOver
    /\ BatchIds(1) = {}
    /\ mainpc = "done"


\* C16: a step that changes scanErrorsCnt or the heap is a step of main
\* alone: no goroutine of ScanFiles and no closer moves in it. While main
\* ranges over a channel it is the body of the loop, run for the one File
\* just received, which adds one to the counter or pushes one id, never both;
\* otherwise it is Heap.Print, which main runs after the last batch, when
\* every goroutine has returned. Main being at one place at a time, two such
\* writes are never under way together.
C16_OnlyMainWritesCounters ==
    [][(scanErrorsCnt' # scanErrorsCnt \/ heap' # heap) =>
          /\ tasks' = tasks
          /\ syncVars' = syncVars
          /\ \/ /\ mainpc = "body"
                /\ mainpc' = "range"
                /\ recv[cur] = 1
                /\ tasks[cur].pc \in {"done", "exit"}
                /\ \/ scanErrorsCnt' = scanErrorsCnt + 1 /\ heap' = heap
                   \/ /\ scanErrorsCnt' = scanErrorsCnt
                      /\ Len(heap') = Len(heap) + 1
             \/ /\ mainpc = "print"
                /\ scanErrorsCnt' = scanErrorsCnt
                /\ \A id \in Started : tasks[id].pc = "exit"]_vars

\* main has counted the failed File of one goroutine while another goroutine
\* of the same batch is reading its file
C16_Witness ==
    /\ mainpc = "range"
    /\ scanErrorsCnt > 0
    /\ Failed(cur)
    /\ \E id \in Started : id[1] = cur[1] /\ tasks[id].pc = "read"


\* C17: a step changes the File of at most one goroutine, it is a step of
\* that goroutine between its creation of the File and the end of its
\* File.Scan, and neither main nor another goroutine moves in it; once the
\* goroutine is at the send, and for ever after the File was received, its
\* path, matched lines and error stay as they are.
C17_FileWrittenByOwnerBeforeSend ==
    [][\A id \in DOMAIN tasks :
          /\ tasks[id].pc \in {"after", "send", "done", "exit"} =>
                tasks'[id].f = tasks[id].f
          /\ tasks'[id].f # tasks[id].f =>
                /\ tasks[id].pc \in {"before", "scan", "read"}
                /\ \A other \in DOMAIN tasks \ {id} :
                      tasks'[other] = tasks[other]
                /\ mainVars' = mainVars
                /\ syncVars' = syncVars]_vars

\* a File with a matched line has been received and is in the heap while
\* another goroutine of the same batch, its own first line recorded, is
\* still reading
C17_Witness ==
    \E id \in Started : \E other \in Started :
        /\ id[1] = other[1]
        /\ Delivered(id)
        /\ HasMatches(id)
        /\ heap # <<>>
        /\ tasks[other].pc = "read"
        /\ DOMAIN tasks[other].f.matchedLines # {}


\* C18: with a nil match pattern no goroutine ever opens or reads its file,
\* whatever the disk holds at its path, a path that cannot be opened
\* included: every File stays without error and without matched lines, main
\* counts no error and pushes nothing, and the numbers shown count every path
\* as scanned and successful.
C18_NilMatchNeverOpens ==
    match = NilRegex =>
        /\ \A id \in Started :
              /\ ~tasks[id].fd
              /\ tasks[id].pc # "read"
              /\ tasks[id].f.scanError = "nil"
              /\ DOMAIN tasks[id].f.matchedLines = {}
        /\ scanErrorsCnt = 0
        /\ heap = <<>>
        /\ mainpc = "done" =>
              /\ shown.scanned = Len(foundFiles)
              /\ shown.errors = 0
              /\ shown.success = Len(foundFiles)
              /\ shown.matched = 0

\* the numbers are shown for a batch scanned with a nil match pattern that
\* held a path that cannot be opened and a file with a Korean line
C18_Witness ==
    /\ match = NilRegex
    /\ mainpc = "done"
    /\ \E p \in Range(foundFiles) : disk[p] = UnreadableFile
    /\ \E p \in Range(foundFiles) : disk[p] = MatchingFile
    /\ \A id \in BatchIds(1) : recv[id] = 1
    /\ shown.success > 1

====
